---- MODULE Spec2Model ----
(***************************************************************************)
(* Model of the stake-engine-client operation layer: client.ts (the        *)
(* StakeEngineClient class, getUrlParams and the six request* functions),  *)
(* constants.ts and the AmountConverter helper of the Amount-Conversion    *)
(* wiki page.                                                              *)
(*                                                                         *)
(* Values.  Strings are TLA+ strings; a value that is undefined or null is *)
(* the string None.  A JavaScript number is a record                       *)
(*   [n |-> numerator, d |-> denominator, k |-> "number"]  (lowest terms), *)
(* or has k in {"NaN", "Infinity", "-Infinity"}; a property that was not   *)
(* passed has k = "undefined".  Arithmetic on numbers is exact: the        *)
(* rounding of IEEE-754 doubles is not modelled.                           *)
(*                                                                         *)
(* A call is an async function: the part up to its first await is one      *)
(* step, and every settled promise it awaits resumes it for one more step. *)
(***************************************************************************)
EXTENDS Integers, Sequences, FiniteSets, TLC

VARIABLES
    ambient,        \* the page: does `window` exist, and its query string
    pc,             \* where the call in progress is suspended
    call,           \* the public function called and its options
    transportLog,   \* the requests handed to fetcher during this call
    response,       \* what the fetcher promise settled with
    jsonCalls,      \* how many times response.json() was called
    outcome,        \* how the promise returned to the caller settled
    converter,      \* an amount taken through the AmountConverter helper
    calls,          \* calls in flight at the same time, one record each
    fetcherRun      \* one invocation of fetcher and the fetch calls it made

vars ==
    <<ambient, pc, call, transportLog, response, jsonCalls, outcome, converter,
      calls, fetcherRun>>

----------------------------------------------------------------------------
(* constants.ts *)

API_AMOUNT_MULTIPLIER == 1000000

BOOK_AMOUNT_MULTIPLIER == 100

----------------------------------------------------------------------------
(* Bounds of the model *)

\* amounts k, k/100 and k/10^7 are drawn for k in 0..MaxAmountNum
MaxAmountNum == 1

\* event indexes are drawn from 0..MaxEventIndex
MaxEventIndex == 1

\* the AmountConverter is given k, k/10, k/100, k/1000 and k/10^7
\* for k in 0..MaxConverterNum
MaxConverterNum == 30

----------------------------------------------------------------------------
(* JavaScript values *)

None == "<undefined>"

\* !v for a string-or-undefined value
\* `??` in place of `||` and `== null` in place of `!`: only a missing
\* value counts as absent, the empty string does not
FalsyOnlyWhenMissing(v) == v = None

Falsy(v) == v = None \/ v = ""

\* a || b
Or(a, b) == IF Falsy(a) THEN b ELSE a

RECURSIVE Gcd(_, _)
Gcd(a, b) == IF b = 0 THEN a ELSE Gcd(b, a % b)

Abs(i) == IF i < 0 THEN 0 - i ELSE i

\* the number n/d in lowest terms, d > 0
Num(n, d) ==
    LET g == Gcd(Abs(n), d)
    IN  [n |-> n \div g, d |-> d \div g, k |-> "number"]

NaN == [n |-> 0, d |-> 1, k |-> "NaN"]

Infinity == [n |-> 0, d |-> 1, k |-> "Infinity"]

NegInfinity == [n |-> 0, d |-> 1, k |-> "-Infinity"]

Undefined == [n |-> 0, d |-> 1, k |-> "undefined"]

IsFiniteNumber(x) == x.k = "number"

IsInteger(x) == x.k = "number" /\ x.d = 1

IsNegative(x) == x.k = "-Infinity" \/ (x.k = "number" /\ x.n < 0)

\* x * m for a positive integer literal m (undefined * m is NaN)
Times(x, m) ==
    CASE x.k = "number" -> Num(x.n * m, x.d)
      [] x.k = "undefined" -> NaN
      [] OTHER -> x

\* x / m for a positive integer literal m
DividedBy(x, m) ==
    CASE x.k = "number" ->
           LET g == Gcd(Abs(x.n), m)
           IN  Num(x.n \div g, x.d * (m \div g))
      [] x.k = "undefined" -> NaN
      [] OTHER -> x

\* Math.round: the nearest integer, a tie going up
MathRound(x) ==
    CASE x.k = "number" ->
           LET fl == x.n \div x.d
               r  == x.n % x.d
           IN  Num(IF 2 * r >= x.d THEN fl + 1 ELSE fl, 1)
      [] x.k = "undefined" -> NaN
      [] OTHER -> x

\* the digits after the decimal point of r/d (0 <= r < d), at most `left`
\* of them
RECURSIVE FractionDigits(_, _, _)
FractionDigits(r, d, left) ==
    IF r = 0 \/ left = 0 THEN ""
    ELSE ToString((10 * r) \div d) \o FractionDigits((10 * r) % d, d, left - 1)

\* `${x}`: Number::toString for the numbers the model passes as event
\* indexes (of magnitude between 1e-6 and 1e21, where no exponent is
\* written), "undefined", "NaN", "Infinity"
TemplateString(x) ==
    CASE x.k = "number" /\ x.d = 1 -> ToString(x.n)
      [] x.k = "number" ->
             (IF x.n < 0 THEN "-" ELSE "")
                 \o ToString(Abs(x.n) \div x.d) \o "."
                 \o FractionDigits(Abs(x.n) % x.d, x.d, 17)
      [] x.k = "undefined" -> "undefined"
      [] OTHER -> x.k

----------------------------------------------------------------------------
(* Errors.  The message is the sequence of the template literal's parts. *)

Error(message) == [message |-> message, name |-> "Error"]

SessionIDRequired ==
    Error(<<"sessionID is required (provide in options or URL param)">>)

RgsUrlRequired ==
    Error(<<"rgsUrl is required (provide in options or rgs_url URL param)">>)

\* reading window.location when no global `window` exists
WindowNotDefined ==
    [message |-> <<"window is not defined">>, name |-> "ReferenceError"]

\* reading errorData.message when errorData is null
NullPropertyRead ==
    [message |-> <<"Cannot read properties of null (reading 'message')">>,
     name |-> "TypeError"]

\* response.json() on a body that is not JSON
JsonSyntaxError ==
    [message |-> <<"Unexpected token in JSON">>, name |-> "SyntaxError"]

\* the rejection of fetch itself (DNS, connection refused, timeout)
TransportFaults ==
    { [message |-> <<"fetch failed">>, name |-> "TypeError"],
      [message |-> <<"The operation was aborted">>, name |-> "AbortError"] }

----------------------------------------------------------------------------
(* The ambient source: window.location.search *)

\* the four query parameters; a parameter that is not in the query string
\* is None (URLSearchParams.get returns null), `?lang=` gives ""
QueryStrings ==
    [sessionID : {None, "", "B"},
     rgs_url   : {None, "", "g"},
     lang      : {None, "", "de"},
     currency  : {None, "", "GBP"}]

NoQuery == [sessionID |-> None, rgs_url |-> None, lang |-> None, currency |-> None]

\* a browser page with its query string, or Node.js, where no `window` exists
AmbientSources ==
    { [window |-> TRUE, search |-> q] : q \in QueryStrings }
        \cup { [window |-> FALSE, search |-> NoQuery] }

----------------------------------------------------------------------------
(* client.ts: getUrlParams *)

\* a getUrlParams that forgets the `|| 'en'` and `|| 'USD'` defaults
getUrlParamsNoDefaults ==
    [sessionID |-> ambient.search.sessionID,
     currency  |-> ambient.search.currency,
     threw     |-> ~ambient.window,
     rgsUrl    |-> ambient.search.rgs_url,
     language  |-> ambient.search.lang]

\* a getUrlParams that reads the query string once and keeps it: when an
\* earlier call is still on record, its values are handed out again
getUrlParamsCached ==
    LET earlier == { j \in DOMAIN calls :
                        calls[j].pc # "idle" /\ calls[j].resolvedFrom.window }
        source  == IF earlier = {} THEN ambient
                   ELSE calls[CHOOSE j \in earlier : TRUE].resolvedFrom
    IN  IF source.window
        THEN [sessionID |-> source.search.sessionID,
              currency  |-> Or(source.search.currency, "USD"),
              threw     |-> FALSE,
              rgsUrl    |-> source.search.rgs_url,
              language  |-> Or(source.search.lang, "en")]
        ELSE [sessionID |-> None,
              currency  |-> None,
              threw     |-> TRUE,
              rgsUrl    |-> None,
              language  |-> None]

getUrlParams ==
    IF ambient.window
    THEN [sessionID |-> ambient.search.sessionID,
          currency  |-> Or(ambient.search.currency, "USD"),
          threw     |-> FALSE,
          rgsUrl    |-> ambient.search.rgs_url,
          language  |-> Or(ambient.search.lang, "en")]
    ELSE [sessionID |-> None,
          currency  |-> None,
          threw     |-> TRUE,
          rgsUrl    |-> None,
          language  |-> None]

----------------------------------------------------------------------------
(* client.ts: StakeEngineClient.post and StakeEngineClient.get, up to the  *)
(* await of fetcher: the request handed to the transport                   *)

post(options) ==
    [method    |-> "POST",
     endpoint  |-> <<"https://", options.rgsUrl, options.url>>,
     variables |-> options.variables]

get(options) ==
    [method   |-> "GET",
     endpoint |-> <<"https://", options.rgsUrl, options.url>>]

\* what the synchronous part of a call ends with
Throw(e) == [kind |-> "throw", error |-> e]

Fetch(request) == [kind |-> "fetch", request |-> request]

----------------------------------------------------------------------------
(* client.ts: the six request functions, up to their first await *)

\* a requestAuthenticate in which the URL parameters win over the options
requestAuthenticateCallAmbientFirst(options) ==
    LET urlParams == getUrlParams
        sessionID == Or(urlParams.sessionID, options.sessionID)
        rgsUrl    == Or(urlParams.rgsUrl, options.rgsUrl)
        language  == Or(ambient.search.lang, Or(options.language, "en"))
    IN  IF urlParams.threw THEN Throw(WindowNotDefined)
        ELSE IF Falsy(sessionID) THEN Throw(SessionIDRequired)
        ELSE IF Falsy(rgsUrl) THEN Throw(RgsUrlRequired)
        ELSE Fetch(post([rgsUrl    |-> rgsUrl,
                         url       |-> "/wallet/authenticate",
                         variables |-> [sessionID |-> sessionID,
                                        language  |-> language]]))

requestAuthenticateCall(options) ==
    LET urlParams == getUrlParams
        sessionID == Or(options.sessionID, urlParams.sessionID)
        rgsUrl    == Or(options.rgsUrl, urlParams.rgsUrl)
        language  == Or(options.language, urlParams.language)
    IN  IF urlParams.threw THEN Throw(WindowNotDefined)
        ELSE IF Falsy(sessionID) THEN Throw(SessionIDRequired)
        ELSE IF Falsy(rgsUrl) THEN Throw(RgsUrlRequired)
        ELSE Fetch(post([rgsUrl    |-> rgsUrl,
                         url       |-> "/wallet/authenticate",
                         variables |-> [sessionID |-> sessionID,
                                        language  |-> language]]))

\* a requestBet without the two `is required` checks
requestBetCallUnchecked(options) ==
    LET urlParams == getUrlParams
        sessionID == Or(options.sessionID, urlParams.sessionID)
        rgsUrl    == Or(options.rgsUrl, urlParams.rgsUrl)
        currency  == Or(options.currency, urlParams.currency)
    IN  IF urlParams.threw THEN Throw(WindowNotDefined)
        ELSE Fetch(post([rgsUrl    |-> rgsUrl,
                         url       |-> "/wallet/play",
                         variables |->
                             [sessionID |-> sessionID,
                              currency  |-> currency,
                              mode      |-> options.mode,
                              amount    |-> Times(options.amount,
                                                  API_AMOUNT_MULTIPLIER)]]))

\* a requestBet that scales the amount with the book multiplier
requestBetCallBookScale(options) ==
    LET urlParams == getUrlParams
        sessionID == Or(options.sessionID, urlParams.sessionID)
        rgsUrl    == Or(options.rgsUrl, urlParams.rgsUrl)
        currency  == Or(options.currency, urlParams.currency)
    IN  IF urlParams.threw THEN Throw(WindowNotDefined)
        ELSE IF Falsy(sessionID) THEN Throw(SessionIDRequired)
        ELSE IF Falsy(rgsUrl) THEN Throw(RgsUrlRequired)
        ELSE Fetch(post([rgsUrl    |-> rgsUrl,
                         url       |-> "/wallet/play",
                         variables |->
                             [sessionID |-> sessionID,
                              currency  |-> currency,
                              mode      |-> options.mode,
                              amount    |-> Times(options.amount,
                                                  BOOK_AMOUNT_MULTIPLIER)]]))

requestBetCall(options) ==
    LET urlParams == getUrlParams
        sessionID == Or(options.sessionID, urlParams.sessionID)
        rgsUrl    == Or(options.rgsUrl, urlParams.rgsUrl)
        currency  == Or(options.currency, urlParams.currency)
    IN  IF urlParams.threw THEN Throw(WindowNotDefined)
        ELSE IF Falsy(sessionID) THEN Throw(SessionIDRequired)
        ELSE IF Falsy(rgsUrl) THEN Throw(RgsUrlRequired)
        ELSE Fetch(post([rgsUrl    |-> rgsUrl,
                         url       |-> "/wallet/play",
                         variables |->
                             [sessionID |-> sessionID,
                              currency  |-> currency,
                              mode      |-> options.mode,
                              amount    |-> Times(options.amount,
                                                  API_AMOUNT_MULTIPLIER)]]))

\* a requestEndRound that checks sessionID but not rgsUrl
requestEndRoundCallNoHostCheck(options) ==
    LET urlParams == getUrlParams
        sessionID == Or(options.sessionID, urlParams.sessionID)
        rgsUrl    == Or(options.rgsUrl, urlParams.rgsUrl)
    IN  IF urlParams.threw THEN Throw(WindowNotDefined)
        ELSE IF Falsy(sessionID) THEN Throw(SessionIDRequired)
        ELSE Fetch(post([rgsUrl    |-> rgsUrl,
                         url       |-> "/wallet/end-round",
                         variables |-> [sessionID |-> sessionID]]))

requestEndRoundCall(options) ==
    LET urlParams == getUrlParams
        sessionID == Or(options.sessionID, urlParams.sessionID)
        rgsUrl    == Or(options.rgsUrl, urlParams.rgsUrl)
    IN  IF urlParams.threw THEN Throw(WindowNotDefined)
        ELSE IF Falsy(sessionID) THEN Throw(SessionIDRequired)
        ELSE IF Falsy(rgsUrl) THEN Throw(RgsUrlRequired)
        ELSE Fetch(post([rgsUrl    |-> rgsUrl,
                         url       |-> "/wallet/end-round",
                         variables |-> [sessionID |-> sessionID]]))

\* a requestEndEvent that takes eventIndex as counted from 0 and sends the
\* index counted from 1
requestEndEventCallOneBased(options) ==
    LET urlParams == getUrlParams
        sessionID == Or(options.sessionID, urlParams.sessionID)
        rgsUrl    == Or(options.rgsUrl, urlParams.rgsUrl)
        oneBased  == IF options.eventIndex.k = "number"
                     THEN Num(options.eventIndex.n + options.eventIndex.d,
                              options.eventIndex.d)
                     ELSE NaN
    IN  IF urlParams.threw THEN Throw(WindowNotDefined)
        ELSE IF Falsy(sessionID) THEN Throw(SessionIDRequired)
        ELSE IF Falsy(rgsUrl) THEN Throw(RgsUrlRequired)
        ELSE Fetch(post([rgsUrl    |-> rgsUrl,
                         url       |-> "/bet/event",
                         variables |->
                             [sessionID |-> sessionID,
                              event     |-> TemplateString(oneBased)]]))

requestEndEventCall(options) ==
    LET urlParams == getUrlParams
        sessionID == Or(options.sessionID, urlParams.sessionID)
        rgsUrl    == Or(options.rgsUrl, urlParams.rgsUrl)
    IN  IF urlParams.threw THEN Throw(WindowNotDefined)
        ELSE IF Falsy(sessionID) THEN Throw(SessionIDRequired)
        ELSE IF Falsy(rgsUrl) THEN Throw(RgsUrlRequired)
        ELSE Fetch(post([rgsUrl    |-> rgsUrl,
                         url       |-> "/bet/event",
                         variables |->
                             [sessionID |-> sessionID,
                              event     |-> TemplateString(options.eventIndex)]]))

\* requestForceResult posting to the action path
requestForceResultCallActionPath(options) ==
    LET urlParams == getUrlParams
        rgsUrl    == Or(options.rgsUrl, urlParams.rgsUrl)
    IN  IF urlParams.threw THEN Throw(WindowNotDefined)
        ELSE IF Falsy(rgsUrl) THEN Throw(RgsUrlRequired)
        ELSE Fetch(post([rgsUrl    |-> rgsUrl,
                         url       |-> "/bet/action",
                         variables |-> [search |-> options.search,
                                        mode   |-> options.mode]]))

\* a requestForceResult written like the other five: it wants a sessionID
\* and sends it along
requestForceResultCallNeedsSession(options) ==
    LET urlParams == getUrlParams
        sessionID == urlParams.sessionID
        rgsUrl    == Or(options.rgsUrl, urlParams.rgsUrl)
    IN  IF urlParams.threw THEN Throw(WindowNotDefined)
        ELSE IF Falsy(sessionID) THEN Throw(SessionIDRequired)
        ELSE IF Falsy(rgsUrl) THEN Throw(RgsUrlRequired)
        ELSE Fetch(post([rgsUrl    |-> rgsUrl,
                         url       |-> "/game/search",
                         variables |-> [sessionID |-> sessionID,
                                        search    |-> options.search,
                                        mode      |-> options.mode]]))

requestForceResultCall(options) ==
    LET urlParams == getUrlParams
        rgsUrl    == Or(options.rgsUrl, urlParams.rgsUrl)
    IN  IF urlParams.threw THEN Throw(WindowNotDefined)
        ELSE IF Falsy(rgsUrl) THEN Throw(RgsUrlRequired)
        ELSE Fetch(post([rgsUrl    |-> rgsUrl,
                         url       |-> "/game/search",
                         variables |-> [search |-> options.search,
                                        mode   |-> options.mode]]))

\* requestBalance posting to the path of another operation
requestBalanceCallWrongPath(options) ==
    LET urlParams == getUrlParams
        sessionID == Or(options.sessionID, urlParams.sessionID)
        rgsUrl    == Or(options.rgsUrl, urlParams.rgsUrl)
    IN  IF urlParams.threw THEN Throw(WindowNotDefined)
        ELSE IF Falsy(sessionID) THEN Throw(SessionIDRequired)
        ELSE IF Falsy(rgsUrl) THEN Throw(RgsUrlRequired)
        ELSE Fetch(post([rgsUrl    |-> rgsUrl,
                         url       |-> "/wallet/end-round",
                         variables |-> [sessionID |-> sessionID]]))

requestBalanceCall(options) ==
    LET urlParams == getUrlParams
        sessionID == Or(options.sessionID, urlParams.sessionID)
        rgsUrl    == Or(options.rgsUrl, urlParams.rgsUrl)
    IN  IF urlParams.threw THEN Throw(WindowNotDefined)
        ELSE IF Falsy(sessionID) THEN Throw(SessionIDRequired)
        ELSE IF Falsy(rgsUrl) THEN Throw(RgsUrlRequired)
        ELSE Fetch(post([rgsUrl    |-> rgsUrl,
                         url       |-> "/wallet/balance",
                         variables |-> [sessionID |-> sessionID]]))

----------------------------------------------------------------------------
(* The arguments callers pass.  An option that is left out is None (or     *)
(* Undefined for a number); calling with no options object at all reads    *)
(* the same as leaving every option out (options?.sessionID).              *)

SessionIDs == {None, "", "A"}

RgsUrls == {None, "", "h"}

Languages == {None, "", "fr"}

Currencies == {None, "", "EUR"}

Modes == {None, "base"}

Amounts ==
    { Num(k, d) : k \in 0..MaxAmountNum, d \in {1, 100, 10000000} }
        \cup { Num(25, 10), Num(0 - 1, 1), NaN, Infinity, Undefined }

EventIndexes ==
    { Num(i, 1) : i \in 0..MaxEventIndex }
        \cup { Num(0 - 1, 1), Num(25, 2), Undefined }

Searches == {"symbol=BONUS"}

AuthenticateOptions ==
    [sessionID : SessionIDs, rgsUrl : RgsUrls, language : Languages]

BetOptions ==
    [sessionID : SessionIDs, currency : Currencies, rgsUrl : RgsUrls,
     mode : Modes, amount : Amounts]

EndRoundOptions == [sessionID : SessionIDs, rgsUrl : RgsUrls]

EndEventOptions ==
    [sessionID : SessionIDs, rgsUrl : RgsUrls, eventIndex : EventIndexes]

ForceResultOptions == [search : Searches, rgsUrl : RgsUrls, mode : Modes]

BalanceOptions == [sessionID : SessionIDs, rgsUrl : RgsUrls]

\* types.ts: the keys of `paths`
Paths ==
    {"/wallet/authenticate", "/wallet/balance", "/wallet/play",
     "/wallet/end-round", "/bet/event", "/bet/action", "/session/start",
     "/game/search"}

\* StakeEngineClient.post and .get called directly: rgsUrl is a string
PostOptions ==
    [rgsUrl : {"", "h"}, url : Paths,
     variables : { [sessionID |-> ""], [sessionID |-> "A"] }]

GetOptions == [rgsUrl : {"", "h"}, url : Paths]

----------------------------------------------------------------------------
(* What the transport answers *)

\* a decoded JSON value: null, a number, or an object with the two
\* properties the callers and post/get read
JNull == [message |-> None, t |-> "null", statusCode |-> None]

JNumber == [message |-> None, t |-> "number", statusCode |-> None]

JObject(statusCode, message) ==
    [message |-> message, t |-> "object", statusCode |-> statusCode]

\* {} : what the .catch(() => ({})) of the error path yields
EmptyObject == JObject(None, None)

JsonValues ==
    { JNull, JNumber,
      JObject("SUCCESS", None), JObject("ERR_IPB", None),
      JObject(None, "boom"), JObject(None, "") }

\* a response body: JSON text with its decoded value, or text that is not JSON
Bodies ==
    { [decodable |-> TRUE, value |-> v] : v \in JsonValues }
        \cup { [decodable |-> FALSE, value |-> EmptyObject] }

Statuses == {200, 201, 500}

StatusText(status) ==
    CASE status = 200 -> "OK"
      [] status = 201 -> "Created"
      [] status = 500 -> "Internal Server Error"
      [] OTHER -> ""

\* how the promise of fetcher settles: a Response, or a transport fault
FetchOutcomes ==
    { [kind |-> "response", error |-> Error(<<>>), status |-> st,
       statusText |-> StatusText(st), body |-> b] : st \in Statuses, b \in Bodies }
        \cup
    { [kind |-> "fault", error |-> e, status |-> 0,
       statusText |-> "", body |-> [decodable |-> FALSE, value |-> EmptyObject]] :
          e \in TransportFaults }

NoResponse ==
    [kind |-> "none", error |-> Error(<<>>), status |-> 0,
     statusText |-> "",
     body |-> [decodable |-> FALSE, value |-> EmptyObject]]

----------------------------------------------------------------------------
(* client.ts: StakeEngineClient.post and .get after the await of fetcher *)

\* response.status !== 200
IsErrorStatus(status) == status # 200

\* await response.json().catch(() => ({}))
ErrorData(body) == IF body.decodable THEN body.value ELSE EmptyObject

\* errorData.message, for an errorData that is not null
MessageOf(errorData) ==
    IF errorData.t = "object" THEN errorData.message ELSE None

\* what the error path throws: the Error built from the template literal,
\* or the TypeError of reading a property of null
ErrorPathThrows(resp) ==
    LET errorData == ErrorData(resp.body)
    IN  IF errorData.t = "null" THEN NullPropertyRead
        ELSE Error(<<"RGS API error: ", ToString(resp.status), " ",
                     resp.statusText,
                     IF Falsy(MessageOf(errorData)) THEN ""
                     ELSE " - " \o MessageOf(errorData)>>)

\* const data = await response.json(); return data
Returned(value) == [kind |-> "returned", error |-> Error(<<>>), value |-> value]

Thrown(e) == [kind |-> "thrown", error |-> e, value |-> EmptyObject]

Pending == [kind |-> "pending", error |-> Error(<<>>), value |-> EmptyObject]

\* a success path that turns a domain status other than SUCCESS into a failure
SuccessPathSettlesOnDomainStatus(resp) ==
    IF ~resp.body.decodable THEN Thrown(JsonSyntaxError)
    ELSE IF resp.body.value.t = "object"
            /\ resp.body.value.statusCode \notin {None, "SUCCESS"}
         THEN Thrown(Error(<<"RGS error: ", resp.body.value.statusCode>>))
         ELSE Returned(resp.body.value)

\* a success path with the error path's fallback: an undecodable body is
\* replaced by {} and returned
SuccessPathSettlesWithFallback(resp) ==
    IF resp.body.decodable THEN Returned(resp.body.value)
    ELSE Returned(EmptyObject)

SuccessPathSettles(resp) ==
    IF resp.body.decodable THEN Returned(resp.body.value)
    ELSE Thrown(JsonSyntaxError)

\* a rejected fetcher promise swallowed into an empty result
FaultPathSettlesSwallowed(r) == Returned(EmptyObject)

\* `await fetcher(...)` has no try/catch around it: the rejection of the
\* fetcher promise is the rejection of post/get, the same error object
FaultPathSettles(r) == Thrown(r.error)

\* post/get calling the fetcher again when the first attempt was rejected
postResumesRetrying(r) ==
    IF r.kind = "fault"
    THEN [pc |-> "fetch", jsonCalls |-> 0, outcome |-> Pending,
          fetcherCalls |-> <<transportLog[1]>>]
    ELSE [pc |-> IF IsErrorStatus(r.status) THEN "errorJson" ELSE "bodyJson",
          jsonCalls |-> 1, outcome |-> Pending, fetcherCalls |-> <<>>]

\* post/get decoding the body as the result without looking at the status
postResumesDecodingFirst(r) ==
    IF r.kind = "fault"
    THEN [pc |-> "settled", jsonCalls |-> 0, outcome |-> FaultPathSettles(r),
          fetcherCalls |-> <<>>]
    ELSE [pc |-> "bodyJson", jsonCalls |-> 1, outcome |-> Pending,
          fetcherCalls |-> <<>>]

\* post/get polling: a response whose status is not 200 makes it wait for
\* the transport again
postResumesPolling(r) ==
    IF r.kind = "fault"
    THEN [pc |-> "settled", jsonCalls |-> 0, outcome |-> FaultPathSettles(r),
          fetcherCalls |-> <<>>]
    ELSE IF IsErrorStatus(r.status)
    THEN [pc |-> "fetch", jsonCalls |-> 0, outcome |-> Pending,
          fetcherCalls |-> <<>>]
    ELSE [pc |-> "bodyJson", jsonCalls |-> 1, outcome |-> Pending,
          fetcherCalls |-> <<>>]

\* post/get resumes when the fetcher promise settles with r: where it goes
\* next, what the call has settled to, how many response.json() calls it
\* starts and which further fetcher calls it makes (none: the one
\* `await fetcher(...)` is the only call site and is in no loop)
postResumes(r) ==
    IF r.kind = "fault"
    THEN [pc |-> "settled", jsonCalls |-> 0, outcome |-> FaultPathSettles(r),
          fetcherCalls |-> <<>>]
    ELSE [pc |-> IF IsErrorStatus(r.status) THEN "errorJson" ELSE "bodyJson",
          jsonCalls |-> 1, outcome |-> Pending, fetcherCalls |-> <<>>]

----------------------------------------------------------------------------
(* Amount-Conversion wiki: the AmountConverter helper *)

\* a toApiFormat that takes the book scale for the API scale
toApiFormatBookScale(dollarAmount) ==
    MathRound(Times(dollarAmount, BOOK_AMOUNT_MULTIPLIER))

\* Human -> API
toApiFormat(dollarAmount) ==
    MathRound(Times(dollarAmount, API_AMOUNT_MULTIPLIER))

\* API -> Human
fromApiFormat(apiAmount) == DividedBy(apiAmount, API_AMOUNT_MULTIPLIER)

\* Human -> Book
toBookFormat(dollarAmount) ==
    MathRound(Times(dollarAmount, BOOK_AMOUNT_MULTIPLIER))

\* Book -> Human
fromBookFormat(bookAmount) == DividedBy(bookAmount, BOOK_AMOUNT_MULTIPLIER)

NoConversion ==
    [stage |-> "none", dollars |-> Undefined, api |-> Undefined,
     back |-> Undefined]

----------------------------------------------------------------------------
(* The state machine of one caller making one call after another *)

NoCall == [options |-> [sessionID |-> None, rgsUrl |-> None], op |-> "none"]

\* how many calls may be in flight at the same time
MaxCalls == 2

CallIds == 1..MaxCalls

\* a slot with no call in it
IdleCall ==
    [pc |-> "idle", transportLog |-> <<>>, response |-> NoResponse,
     outcome |-> Pending,
     resolvedFrom |-> [window |-> FALSE, search |-> NoQuery],
     options |-> NoCall.options, op |-> "none"]

NoCalls == [i \in CallIds |-> IdleCall]

\* fetcher has not been invoked
NoFetcherRun ==
    [options |-> [method |-> "GET", endpoint |-> "",
                  variables |-> [undefined |-> TRUE], fetch |-> None],
     stage |-> "none",
     globalFetch |-> <<>>, customFetch |-> <<>>]

Init ==
    /\ ambient \in AmbientSources
    /\ pc = "idle"
    /\ call = NoCall
    /\ transportLog = <<>>
    /\ response = NoResponse
    /\ jsonCalls = 0
    /\ outcome = Pending
    /\ converter = NoConversion
    /\ calls = NoCalls
    /\ fetcherRun = NoFetcherRun

\* a call that takes the sessionID out of the page's query string once it
\* has read it
BeginConsumingQuery(op, options, plan) ==
    /\ pc = "idle"
    /\ call' = [options |-> options, op |-> op]
    /\ IF plan.kind = "throw"
       THEN /\ pc' = "settled"
            /\ outcome' = Thrown(plan.error)
            /\ transportLog' = transportLog
       ELSE /\ pc' = "fetch"
            /\ outcome' = Pending
            /\ transportLog' = Append(transportLog, plan.request)
    /\ ambient' = [ambient EXCEPT !.search.sessionID = None]
    /\ UNCHANGED <<response, jsonCalls, converter, calls, fetcherRun>>

\* The caller calls `op` with `options`; the function runs to its first
\* await (the fetcher promise) or throws before it.
Begin(op, options, plan) ==
    /\ pc = "idle"
    /\ call' = [options |-> options, op |-> op]
    /\ IF plan.kind = "throw"
       THEN /\ pc' = "settled"
            /\ outcome' = Thrown(plan.error)
            /\ transportLog' = transportLog
       ELSE /\ pc' = "fetch"
            /\ outcome' = Pending
            /\ transportLog' = Append(transportLog, plan.request)
    /\ UNCHANGED <<ambient, response, jsonCalls, converter, calls, fetcherRun>>

requestAuthenticate ==
    \E options \in AuthenticateOptions :
        Begin("requestAuthenticate", options, requestAuthenticateCall(options))

requestBet ==
    \E options \in BetOptions :
        Begin("requestBet", options, requestBetCall(options))

requestEndRound ==
    \E options \in EndRoundOptions :
        Begin("requestEndRound", options, requestEndRoundCall(options))

requestEndEvent ==
    \E options \in EndEventOptions :
        Begin("requestEndEvent", options, requestEndEventCall(options))

requestForceResult ==
    \E options \in ForceResultOptions :
        Begin("requestForceResult", options, requestForceResultCall(options))

requestBalance ==
    \E options \in BalanceOptions :
        Begin("requestBalance", options, requestBalanceCall(options))

\* stakeEngineClient.post(options) called directly
clientPost ==
    \E options \in PostOptions : Begin("post", options, Fetch(post(options)))

\* stakeEngineClient.get(options) called directly
clientGet ==
    \E options \in GetOptions : Begin("get", options, Fetch(get(options)))

\* The fetcher promise settles and post/get resumes: a fault rejects the
\* call; otherwise the status is inspected and response.json() is awaited,
\* on the error path or on the success path.
fetcherSettles ==
    /\ pc = "fetch"
    /\ \E r \in FetchOutcomes :
         /\ response' = r
         /\ LET resumed == postResumes(r)
            IN  /\ pc' = resumed.pc
                /\ outcome' = resumed.outcome
                /\ jsonCalls' = jsonCalls + resumed.jsonCalls
                /\ transportLog' = transportLog \o resumed.fetcherCalls
    /\ UNCHANGED <<ambient, call, converter, calls, fetcherRun>>

\* response.json() of the error path settles (its rejection is caught);
\* post/get throws
errorJsonSettles ==
    /\ pc = "errorJson"
    /\ pc' = "settled"
    /\ outcome' = Thrown(ErrorPathThrows(response))
    /\ UNCHANGED <<ambient, call, transportLog, response, jsonCalls, converter, calls,
                   fetcherRun>>

\* response.json() of the success path settles; post/get returns the data
\* or rejects with the decode failure
bodyJsonSettles ==
    /\ pc = "bodyJson"
    /\ pc' = "settled"
    /\ outcome' = SuccessPathSettles(response)
    /\ UNCHANGED <<ambient, call, transportLog, response, jsonCalls, converter, calls,
                   fetcherRun>>

\* The caller has the result; nothing of the call is kept.
callerContinues ==
    /\ pc = "settled"
    /\ pc' = "idle"
    /\ call' = NoCall
    /\ transportLog' = <<>>
    /\ response' = NoResponse
    /\ jsonCalls' = 0
    /\ outcome' = Pending
    /\ UNCHANGED <<ambient, converter, calls, fetcherRun>>

\* The page's query string changes between two calls (a navigation,
\* history.pushState); Node.js has no page.
navigate ==
    /\ pc = "idle"
    /\ ambient.window
    /\ \E a \in AmbientSources : a.window /\ a # ambient /\ ambient' = a
    /\ UNCHANGED <<pc, call, transportLog, response, jsonCalls, outcome, converter, calls,
                   fetcherRun>>

Next ==
    \/ requestAuthenticate
    \/ requestBet
    \/ requestEndRound
    \/ requestEndEvent
    \/ requestForceResult
    \/ requestBalance
    \/ clientPost
    \/ clientGet
    \/ fetcherSettles
    \/ errorJsonSettles
    \/ bodyJsonSettles
    \/ callerContinues
    \/ navigate

Spec == Init /\ [][Next]_vars

----------------------------------------------------------------------------
(* The AmountConverter applied to one amount: to the API format and back *)

ConverterInputs ==
    { Num(k, d) : k \in 0..MaxConverterNum, d \in {1, 10, 100, 1000, 10000000} }

InitConverter ==
    /\ ambient = [window |-> FALSE, search |-> NoQuery]
    /\ pc = "idle"
    /\ call = NoCall
    /\ transportLog = <<>>
    /\ response = NoResponse
    /\ jsonCalls = 0
    /\ outcome = Pending
    /\ calls = NoCalls
    /\ fetcherRun = NoFetcherRun
    /\ \E x \in ConverterInputs :
         converter = [stage |-> "dollars", dollars |-> x, api |-> Undefined,
                      back |-> Undefined]

convertToApi ==
    /\ converter.stage = "dollars"
    /\ converter' = [converter EXCEPT !.stage = "api",
                                      !.api = toApiFormat(converter.dollars)]
    /\ UNCHANGED <<ambient, pc, call, transportLog, response, jsonCalls, outcome,
                   calls, fetcherRun>>

convertFromApi ==
    /\ converter.stage = "api"
    /\ converter' = [converter EXCEPT !.stage = "back",
                                      !.back = fromApiFormat(converter.api)]
    /\ UNCHANGED <<ambient, pc, call, transportLog, response, jsonCalls, outcome,
                   calls, fetcherRun>>

NextConverter == convertToApi \/ convertFromApi

SpecConverter == InitConverter /\ [][NextConverter]_vars

----------------------------------------------------------------------------
(* Several calls in flight at the same time.  A call runs to its first   *)
(* await without interruption (JavaScript runs one job at a time); the    *)
(* continuations of different calls interleave in any order, and the page *)
(* may change its query string between any two of them.                   *)

ConcurrentOps == {"requestBet", "requestBalance", "requestEndRound"}

ConcurrentOptions(op) ==
    IF op = "requestBet"
    THEN [sessionID : {None, "A"}, currency : {None}, rgsUrl : {"h"},
          mode : {"base"}, amount : {Num(1, 1)}]
    ELSE IF op = "requestEndRound"
    THEN [sessionID : {"A"}, rgsUrl : {"h"}]
    ELSE [sessionID : {None, "A"}, rgsUrl : {None, "h"}]

ConcurrentAmbients ==
    { a \in AmbientSources :
        \/ ~a.window
        \/ a.search = NoQuery
        \/ a.search = [sessionID |-> "B", rgs_url |-> "g", lang |-> None,
                       currency |-> None] }

ConcurrentOutcomes ==
    { r \in FetchOutcomes :
        \/ r.kind = "fault" /\ r.error.name = "TypeError"
        \/ r.kind = "response" /\ r.status = 200
             /\ r.body = [decodable |-> TRUE, value |-> JObject("SUCCESS", None)]
        \/ r.kind = "response" /\ r.status = 500
             /\ r.body = [decodable |-> TRUE, value |-> JObject(None, "boom")] }

\* the exported function `op` called with `options`
CallPlan(op, options) ==
    IF op = "requestBet" THEN requestBetCall(options)
    ELSE IF op = "requestEndRound" THEN requestEndRoundCall(options)
    ELSE requestBalanceCall(options)

\* a response kept in one place for all calls: the one call 1 received,
\* when there is one
SharedResponse(i) ==
    IF calls[1].response.kind # "none" THEN calls[1].response
    ELSE calls[i].response

\* the response a continuation of call i works on: `const response`, local
\* to the invocation of post
OwnResponse(i) == calls[i].response

InitConcurrent ==
    /\ ambient \in ConcurrentAmbients
    /\ pc = "idle"
    /\ call = NoCall
    /\ transportLog = <<>>
    /\ response = NoResponse
    /\ jsonCalls = 0
    /\ outcome = Pending
    /\ converter = NoConversion
    /\ calls = NoCalls
    /\ fetcherRun = NoFetcherRun

\* a core that lets one call at a time through: a call starts only when no
\* other call is waiting for the transport or for a body
MayStartWhenNoneInFlight(i) ==
    /\ calls[i].pc = "idle"
    /\ \A j \in CallIds \ {i} : calls[j].pc \in {"idle", "settled"}

\* what a call needs in order to start: that the caller calls it.  The
\* request functions and post take no lock, keep no queue and look at no
\* other call.
MayStart(i) == calls[i].pc = "idle"

\* the exported function `op` is called with `options` as call i and runs to
\* its first await or throws
StartCall(i, op, options) ==
    LET plan == CallPlan(op, options)
    IN  /\ MayStart(i)
        /\ calls' = [calls EXCEPT ![i] =
              [pc |-> IF plan.kind = "throw" THEN "settled" ELSE "fetch",
               transportLog |->
                   IF plan.kind = "throw" THEN <<>> ELSE <<plan.request>>,
               response |-> NoResponse,
               outcome |-> IF plan.kind = "throw"
                           THEN Thrown(plan.error) ELSE Pending,
               resolvedFrom |-> ambient,
               options |-> options,
               op |-> op]]
        /\ UNCHANGED <<ambient, pc, call, transportLog, response, jsonCalls,
                       outcome, converter, fetcherRun>>

\* the fetcher promise of call i settles with r
FetcherSettlesFor(i, r) ==
    /\ calls[i].pc = "fetch"
    /\ LET resumed == postResumes(r)
       IN  calls' = [calls EXCEPT ![i].response = r,
                                  ![i].pc = resumed.pc,
                                  ![i].outcome = resumed.outcome,
                                  ![i].transportLog = @ \o resumed.fetcherCalls]
    /\ UNCHANGED <<ambient, pc, call, transportLog, response, jsonCalls, outcome,
                   converter, fetcherRun>>

\* response.json() of the success path of call i settles
BodyJsonSettlesFor(i) ==
    /\ calls[i].pc = "bodyJson"
    /\ calls' = [calls EXCEPT ![i].pc = "settled",
                    ![i].outcome = SuccessPathSettles(OwnResponse(i))]
    /\ UNCHANGED <<ambient, pc, call, transportLog, response, jsonCalls, outcome,
                   converter, fetcherRun>>

\* a caller starts a call in a free slot while others may be in flight
concurrentCall ==
    \E i \in CallIds, op \in ConcurrentOps :
        \E options \in ConcurrentOptions(op) : StartCall(i, op, options)

\* the fetcher promise of one of the calls settles
concurrentFetcherSettles ==
    \E i \in CallIds, r \in ConcurrentOutcomes : FetcherSettlesFor(i, r)

\* response.json() of one call's error path settles
concurrentErrorJsonSettles ==
    /\ \E i \in CallIds :
         /\ calls[i].pc = "errorJson"
         /\ calls' = [calls EXCEPT ![i].pc = "settled",
                         ![i].outcome = Thrown(ErrorPathThrows(OwnResponse(i)))]
    /\ UNCHANGED <<ambient, pc, call, transportLog, response, jsonCalls, outcome,
                   converter, fetcherRun>>

\* response.json() of one call's success path settles
concurrentBodyJsonSettles == \E i \in CallIds : BodyJsonSettlesFor(i)

\* the caller of one call has its result; the slot is free again
concurrentCallerContinues ==
    /\ \E i \in CallIds :
         /\ calls[i].pc = "settled"
         /\ calls' = [calls EXCEPT ![i] = IdleCall]
    /\ UNCHANGED <<ambient, pc, call, transportLog, response, jsonCalls, outcome,
                   converter, fetcherRun>>

\* the page's query string changes while calls are in flight
concurrentNavigate ==
    /\ ambient.window
    /\ \E a \in ConcurrentAmbients : a.window /\ a # ambient /\ ambient' = a
    /\ UNCHANGED <<pc, call, transportLog, response, jsonCalls, outcome,
                   converter, calls, fetcherRun>>

NextConcurrent ==
    \/ concurrentCall
    \/ concurrentFetcherSettles
    \/ concurrentErrorJsonSettles
    \/ concurrentBodyJsonSettles
    \/ concurrentCallerContinues
    \/ concurrentNavigate

SpecConcurrent == InitConcurrent /\ [][NextConcurrent]_vars

----------------------------------------------------------------------------
(* One caller on one page, with the assumption that the transport settles *)
(* every request (with a response or a fault) and that response.json()    *)
(* settles: the events the call waits for do happen.                       *)

InitLive ==
    /\ ambient \in ConcurrentAmbients
    /\ pc = "idle"
    /\ call = NoCall
    /\ transportLog = <<>>
    /\ response = NoResponse
    /\ jsonCalls = 0
    /\ outcome = Pending
    /\ converter = NoConversion
    /\ calls = NoCalls
    /\ fetcherRun = NoFetcherRun

NextLive ==
    \/ requestAuthenticate
    \/ requestBet
    \/ requestEndRound
    \/ requestEndEvent
    \/ requestForceResult
    \/ requestBalance
    \/ clientPost
    \/ clientGet
    \/ fetcherSettles
    \/ errorJsonSettles
    \/ bodyJsonSettles
    \/ callerContinues

\* the transport eventually answers; a body decode eventually completes
TransportAndDecodeSettle ==
    /\ WF_vars(fetcherSettles)
    /\ WF_vars(errorJsonSettles)
    /\ WF_vars(bodyJsonSettles)

SpecLive == InitLive /\ [][NextLive]_vars /\ TransportAndDecodeSettle

----------------------------------------------------------------------------
(* fetcher.ts: the transport primitive.  One invocation of fetcher, with   *)
(* the calls it makes to the global fetch and to a caller-supplied fetch.  *)

\* `variables` left out of the fetcher options
NoVariables == [undefined |-> TRUE]

\* the order in which the payloads of client.ts list their properties, which
\* is the order JSON.stringify writes them in
PropertyOrder ==
    <<"mode", "currency", "sessionID", "language", "amount", "event", "search">>

Quote(s) == "\"" \o s \o "\""

\* JSON.stringify of one property value: undefined when the value is
\* undefined (the property is left out), null for NaN and the infinities,
\* the digits of a finite number, the quoted string otherwise
JSONValue(key, value) ==
    IF key = "amount"
    THEN CASE value.k = "number" -> TemplateString(value)
           [] value.k = "undefined" -> None
           [] OTHER -> "null"
    ELSE IF value = None THEN None ELSE Quote(value)

\* the properties of v that JSON.stringify writes, from position i on
RECURSIVE JSONMembers(_, _, _)
JSONMembers(v, i, first) ==
    IF i > Len(PropertyOrder) THEN ""
    ELSE LET key == PropertyOrder[i]
         IN  IF key \notin DOMAIN v \/ JSONValue(key, v[key]) = None
             THEN JSONMembers(v, i + 1, first)
             ELSE (IF first THEN "" ELSE ",")
                      \o Quote(key) \o ":" \o JSONValue(key, v[key])
                      \o JSONMembers(v, i + 1, FALSE)

\* JSON.stringify(variables): undefined for undefined, the object text
\* otherwise
JSONStringify(v) ==
    IF "undefined" \in DOMAIN v THEN None
    ELSE "{" \o JSONMembers(v, 1, TRUE) \o "}"

\* the call a fetch function receives: fetchFn(endpoint, init)
FetchCall(endpoint, method, hasBody, body) ==
    [method  |-> method,
     url     |-> endpoint,
     body    |-> body,
     hasBody |-> hasBody,
     headers |-> ("Content-Type" :> "application/json")]

\* a fetcher that never looks at options.fetch
fetcherIgnoringCustomFetch(options) ==
    [call    |-> IF options.method = "GET"
                 THEN FetchCall(options.endpoint, options.method, FALSE, None)
                 ELSE FetchCall(options.endpoint, options.method, TRUE,
                                JSONStringify(options.variables)),
     fetchFn |-> "global"]

\* fetcher(options): which fetch function it calls (options.fetch ?? fetch)
\* and with what
fetcher(options) ==
    [call    |-> IF options.method = "GET"
                 THEN FetchCall(options.endpoint, options.method, FALSE, None)
                 ELSE FetchCall(options.endpoint, options.method, TRUE,
                                JSONStringify(options.variables)),
     fetchFn |-> IF options.fetch = None THEN "global" ELSE "custom"]

\* the payloads fetcher is given
FetcherVariables ==
    { NoVariables,
      [sessionID |-> "A"],
      [sessionID |-> "A", language |-> "en"],
      [sessionID |-> "A", language |-> None],
      [sessionID |-> "A", event |-> "1"],
      [search |-> None, mode |-> "base"] }
        \cup
    { [sessionID |-> "A", currency |-> "USD", mode |-> "base", amount |-> a] :
          a \in {Num(1000000, 1), Num(5, 2), NaN, Infinity} }

FetcherOptionsSet ==
    [method    : {"GET", "POST"},
     endpoint  : {"https://h/wallet/play", "https://h/wallet/balance"},
     variables : FetcherVariables,
     fetch     : {None, "customFetch"}]

InitFetcher ==
    /\ ambient = [window |-> FALSE, search |-> NoQuery]
    /\ pc = "idle"
    /\ call = NoCall
    /\ transportLog = <<>>
    /\ response = NoResponse
    /\ jsonCalls = 0
    /\ outcome = Pending
    /\ converter = NoConversion
    /\ calls = NoCalls
    /\ \E options \in FetcherOptionsSet :
         fetcherRun = [options |-> options, stage |-> "invoked",
                       globalFetch |-> <<>>, customFetch |-> <<>>]

\* fetcher runs: it calls one fetch function and returns its promise
fetcherRuns ==
    /\ fetcherRun.stage = "invoked"
    /\ LET made == fetcher(fetcherRun.options)
       IN  fetcherRun' =
             [fetcherRun EXCEPT
                !.stage = "returned",
                !.globalFetch = IF made.fetchFn = "global"
                                THEN Append(@, made.call) ELSE @,
                !.customFetch = IF made.fetchFn = "custom"
                                THEN Append(@, made.call) ELSE @]
    /\ UNCHANGED <<ambient, pc, call, transportLog, response, jsonCalls, outcome,
                   converter, calls>>

NextFetcher == fetcherRuns

SpecFetcher == InitFetcher /\ [][NextFetcher]_vars

----------------------------------------------------------------------------
(* Properties *)

RequestOps ==
    {"requestAuthenticate", "requestBet", "requestEndRound",
     "requestEndEvent", "requestForceResult", "requestBalance"}

\* the request functions whose payload carries a sessionID
SessionOps == RequestOps \ {"requestForceResult"}

Sent == Len(transportLog) > 0

UsedHost == transportLog[1].endpoint[2]

UsedVariables == transportLog[1].variables

Contains(message, part) == \E i \in 1..Len(message) : message[i] = part

GotResponse == pc = "settled" /\ response.kind = "response"

\* C1: whenever the transport answers with an HTTP status other than 200,
\* whatever the body (JSON or not, an object or null), the call fails with
\* an error that carries the status code, and returns no value.
C1_HttpFailureCarriesStatus ==
    (GotResponse /\ response.status # 200) =>
        /\ outcome.kind = "thrown"
        /\ Contains(outcome.error.message, ToString(response.status))

\* C2: whenever the transport answers 200 with a decodable body, the call
\* succeeds and returns exactly the decoded body, whatever the in-band
\* status.statusCode is.
C2_DomainStatusPassthrough ==
    (GotResponse /\ response.status = 200 /\ response.body.decodable) =>
        outcome = Returned(response.body.value)

C2_Witness ==
    /\ GotResponse
    /\ response.status = 200
    /\ response.body.decodable
    /\ response.body.value.statusCode = "ERR_IPB"
    /\ outcome.kind = "returned"
    /\ outcome.value.statusCode = "ERR_IPB"

MissingSessionID ==
    /\ call.op \in SessionOps
    /\ Falsy(call.options.sessionID)
    /\ Falsy(ambient.search.sessionID)

MissingRgsUrl ==
    /\ call.op \in RequestOps
    /\ Falsy(call.options.rgsUrl)
    /\ Falsy(ambient.search.rgs_url)

HostAndSessionNonEmpty(request) ==
    /\ ~Falsy(request.endpoint[2])
    /\ (request.method = "POST" /\ "sessionID" \in DOMAIN request.variables)
           => ~Falsy(request.variables.sessionID)

\* C4 as claimed: every request handed to the transport, by a request
\* function or by post/get called directly, has a non-empty serviceHost
\* and, when its payload carries a sessionID, a non-empty sessionID.
C4_Original_EveryEntryPoint ==
    \A i \in 1..Len(transportLog) : HostAndSessionNonEmpty(transportLog[i])

\* C4 amended: every request handed to the transport by one of the six
\* request functions has a non-empty serviceHost and, when its payload
\* carries a sessionID, a non-empty sessionID.
C4_RequestFunctionsSendNonEmpty ==
    call.op \in RequestOps =>
        \A i \in 1..Len(transportLog) : HostAndSessionNonEmpty(transportLog[i])

C4_Witness ==
    /\ pc = "fetch"
    /\ call.op = "requestBet"
    /\ Len(transportLog) = 1
    /\ call.options.sessionID = None
    /\ UsedVariables.sessionID = "B"
    /\ UsedHost = "h"

\* explicit wins when supplied; the ambient value is used when it is not
Precedence(explicit, amb, used) ==
    /\ ~Falsy(explicit) => used = explicit
    /\ (Falsy(explicit) /\ ~Falsy(amb)) => used = amb

\* C5: in every request sent by a request function, each of sessionID,
\* rgsUrl, language and currency is the caller's value when the caller
\* supplied one, whatever the query string holds, and the query string's
\* value when the caller supplied none.
C5_ExplicitWinsOverAmbient ==
    (Sent /\ call.op \in RequestOps) =>
        /\ Precedence(call.options.rgsUrl, ambient.search.rgs_url, UsedHost)
        /\ call.op \in SessionOps =>
               Precedence(call.options.sessionID, ambient.search.sessionID,
                          UsedVariables.sessionID)
        /\ call.op = "requestAuthenticate" =>
               Precedence(call.options.language, ambient.search.lang,
                          UsedVariables.language)
        /\ call.op = "requestBet" =>
               Precedence(call.options.currency, ambient.search.currency,
                          UsedVariables.currency)

C5_Witness ==
    /\ Sent
    /\ call.op = "requestAuthenticate"
    /\ call.options.sessionID = "A"
    /\ ambient.search.sessionID = "B"
    /\ call.options.rgsUrl = None
    /\ ambient.search.rgs_url = "g"
    /\ UsedVariables.sessionID = "A"
    /\ UsedHost = "g"

Resolvable(explicit, amb) == ~Falsy(explicit) \/ ~Falsy(amb)

\* C6: a missing locale or currency never fails a call.  An authenticate
\* call with a sessionID and an rgsUrl to resolve is sent whatever the
\* locale, and with no locale in the options or the query string its
\* payload is exactly {sessionID, language: "en"}; a play call likewise is
\* sent whatever the currency, and carries currency "USD" when none is given.
C6_LocaleAndCurrencyDefault ==
    /\ ( /\ pc # "idle"
         /\ call.op \in {"requestAuthenticate", "requestBet"}
         /\ ambient.window
         /\ Resolvable(call.options.sessionID, ambient.search.sessionID)
         /\ Resolvable(call.options.rgsUrl, ambient.search.rgs_url) )
           => Len(transportLog) = 1
    /\ ( /\ Sent
         /\ call.op = "requestAuthenticate"
         /\ ~Resolvable(call.options.language, ambient.search.lang) )
           => UsedVariables =
                 [sessionID |-> Or(call.options.sessionID,
                                   ambient.search.sessionID),
                  language  |-> "en"]
    /\ ( /\ Sent
         /\ call.op = "requestBet"
         /\ ~Resolvable(call.options.currency, ambient.search.currency) )
           => UsedVariables.currency = "USD"

C6_Witness ==
    /\ Sent
    /\ call.op = "requestAuthenticate"
    /\ call.options.language = None
    /\ ambient.search.lang = None
    /\ UsedVariables = [sessionID |-> "A", language |-> "en"]

IsValidBet(x) == IsFiniteNumber(x) /\ ~IsNegative(x)

\* C7: for every finite non-negative amount x, requestBet sends the
\* integer round(x * 1,000,000) as the payload's amount, and mode, currency
\* and sessionID as resolved.
C7_BetAmountIsRoundedInteger ==
    (Sent /\ call.op = "requestBet" /\ IsValidBet(call.options.amount)) =>
        /\ UsedVariables.amount =
               MathRound(Times(call.options.amount, API_AMOUNT_MULTIPLIER))
        /\ IsInteger(UsedVariables.amount)
        /\ UsedVariables.mode = call.options.mode
        /\ UsedVariables.currency =
               Or(call.options.currency, Or(ambient.search.currency, "USD"))
        /\ UsedVariables.sessionID =
               Or(call.options.sessionID, ambient.search.sessionID)

\* C8: a bet whose amount is negative or not finite is rejected before the
\* transport is invoked: the call fails and nothing is sent.
C8_InvalidAmountRejected ==
    ( /\ pc # "idle"
      /\ call.op = "requestBet"
      /\ call.options.amount.k # "undefined"
      /\ ~IsValidBet(call.options.amount) )
        => /\ pc = "settled"
           /\ outcome.kind = "thrown"
           /\ Len(transportLog) = 0

\* C9: a play call without amount or without mode, and an event call
\* without eventIndex, fails before the transport is invoked.
C9_MissingArgumentRejected ==
    ( /\ pc # "idle"
      /\ \/ /\ call.op = "requestBet"
            /\ \/ call.options.amount.k = "undefined"
               \/ call.options.mode = None
         \/ /\ call.op = "requestEndEvent"
            /\ call.options.eventIndex.k = "undefined" )
        => /\ pc = "settled"
           /\ outcome.kind = "thrown"
           /\ Len(transportLog) = 0

\* at most two fractional digits
HasAtMostTwoDecimals(x) == IsFiniteNumber(x) /\ 100 % x.d = 0

----------------------------------------------------------------------------
\* The path the claim gives to each logical operation
PathOfOperation(op) ==
    CASE op = "requestAuthenticate" -> "/wallet/authenticate"
      [] op = "requestBalance"      -> "/wallet/balance"
      [] op = "requestBet"          -> "/wallet/play"
      [] op = "requestEndRound"     -> "/wallet/end-round"
      [] op = "requestEndEvent"     -> "/bet/event"
      [] op = "requestForceResult"  -> "/game/search"

\* The service host a request function resolves: the explicit one unless
\* it is absent, then the ambient one
ResolvedHost == Or(call.options.rgsUrl, ambient.search.rgs_url)

\* C11: every request a request function sends uses method POST and goes to
\* exactly https://{serviceHost}{path}, where the path is the fixed one of
\* the operation; this is so in every state, hence across any sequence of
\* calls and whatever the earlier calls were.
C11_PostToFixedPath ==
    (Sent /\ call.op \in RequestOps) =>
        /\ Len(transportLog) = 1
        /\ transportLog[1].method = "POST"
        /\ transportLog[1].endpoint =
               <<"https://", ResolvedHost, PathOfOperation(call.op)>>

\* the balance operation went out, to the ambient host
C11_Witness ==
    /\ Sent
    /\ call.op = "requestBalance"
    /\ call.options.rgsUrl = None
    /\ transportLog[1].endpoint = <<"https://", "g", "/wallet/balance">>
    /\ transportLog[1].method = "POST"

----------------------------------------------------------------------------
\* C12: when the transport itself fails (the fetcher promise is rejected),
\* the call fails with that very fault: the error is neither replaced nor
\* turned into a returned value, no body is decoded and no second request
\* goes out.
C12_TransportFaultPropagates ==
    (pc = "settled" /\ response.kind = "fault") =>
        /\ outcome.kind = "thrown"
        /\ outcome.error = response.error
        /\ outcome.error \in TransportFaults
        /\ Len(transportLog) = 1
        /\ jsonCalls = 0

\* a call settled with the transport's abort error
C12_Witness ==
    /\ pc = "settled"
    /\ call.op = "requestBet"
    /\ response.kind = "fault"
    /\ response.error.name = "AbortError"
    /\ outcome.kind = "thrown"
    /\ outcome.error.name = "AbortError"

----------------------------------------------------------------------------
\* C13: there are no retries.  During one call the transport is invoked at
\* most once, whatever it answers (exactly once while the call waits for it
\* or for the body), and once a call has settled its outcome is final: the
\* only step left hands it to the caller.
C13_NoRetry ==
    /\ [](/\ Len(transportLog) <= 1
          /\ (pc \in {"fetch", "errorJson", "bodyJson"}) => Len(transportLog) = 1
          /\ (response.kind # "none") => Len(transportLog) = 1)
    /\ [][(outcome.kind # "pending") => (pc' = "idle" /\ transportLog' = <<>>)]_vars

\* a call that failed on a transport fault, after its single dispatch
C13_Witness ==
    /\ pc = "settled"
    /\ response.kind = "fault"
    /\ response.error.name = "TypeError"
    /\ outcome.kind = "thrown"
    /\ Len(transportLog) = 1

----------------------------------------------------------------------------
\* the call in progress was given every configuration value it needs
AllExplicit ==
    /\ call.op \in RequestOps
    /\ ~Falsy(call.options.rgsUrl)
    /\ (call.op \in SessionOps) => ~Falsy(call.options.sessionID)
    /\ (call.op = "requestAuthenticate") => ~Falsy(call.options.language)
    /\ (call.op = "requestBet") => ~Falsy(call.options.currency)

\* C14: a call that is given every needed configuration value explicitly
\* does not depend on the ambient source, a missing one (Node.js) included:
\* its request goes out, built from the explicit values alone, and no
\* failure comes from the ambient source.
C14_ExplicitCallIgnoresAmbient ==
    (pc # "idle" /\ AllExplicit) =>
        /\ Sent
        /\ UsedHost = call.options.rgsUrl
        /\ (call.op \in SessionOps) =>
               UsedVariables.sessionID = call.options.sessionID
        /\ (call.op = "requestAuthenticate") =>
               UsedVariables.language = call.options.language
        /\ (call.op = "requestBet") =>
               UsedVariables.currency = call.options.currency
        /\ (outcome.kind = "thrown") => outcome.error # WindowNotDefined

\* the same statement where a page exists
C14_HoldsInBrowser == ambient.window => C14_ExplicitCallIgnoresAmbient

----------------------------------------------------------------------------
\* the requests a call must have handed to the transport, told from its own
\* arguments and the ambient source as it was when the call resolved its
\* configuration
ExpectedRequests(c) ==
    LET q         == c.resolvedFrom.search
        sessionID == Or(c.options.sessionID, q.sessionID)
        rgsUrl    == Or(c.options.rgsUrl, q.rgs_url)
    IN  IF ~c.resolvedFrom.window \/ Falsy(sessionID) \/ Falsy(rgsUrl)
        THEN <<>>
        ELSE << [method    |-> "POST",
                 endpoint  |-> <<"https://", rgsUrl, PathOfOperation(c.op)>>,
                 variables |->
                     IF c.op = "requestBet"
                     THEN [sessionID |-> sessionID,
                           currency  |-> Or(Or(c.options.currency, q.currency),
                                            "USD"),
                           mode      |-> c.options.mode,
                           amount    |-> Num(c.options.amount.n * 1000000,
                                             c.options.amount.d)]
                     ELSE [sessionID |-> sessionID]] >>

\* the result of a settled call follows from the response to its own request
ResultFollowsOwnResponse(c) ==
    CASE c.response.kind = "none" ->
            c.outcome.kind = "thrown" /\ c.transportLog = <<>>
      [] c.response.kind = "fault" ->
            c.outcome.kind = "thrown" /\ c.outcome.error = c.response.error
      [] c.response.kind = "response" /\ c.response.status = 200 ->
            /\ c.outcome.kind = "returned"
            /\ c.outcome.value = c.response.body.value
      [] OTHER ->
            /\ c.outcome.kind = "thrown"
            /\ Contains(c.outcome.error.message, ToString(c.response.status))

\* C15: calls in flight at the same time do not interfere.  In every
\* interleaving each call's request is the one its own arguments and the
\* ambient source at its resolution give, each settled call's result is the
\* one the response to its own request gives, and a step of one call leaves
\* the other calls exactly as they were.
C15_ConcurrentCallsDoNotInterfere ==
    /\ [](\A i \in CallIds :
            /\ (calls[i].pc # "idle") =>
                   calls[i].transportLog = ExpectedRequests(calls[i])
            /\ (calls[i].pc = "settled") => ResultFollowsOwnResponse(calls[i]))
    /\ [][\A i, j \in CallIds :
            (i # j /\ calls'[i] # calls[i]) => calls'[j] = calls[j]]_vars

\* two calls settled side by side, resolved from different query strings,
\* sent to different hosts and answered differently
C15_Witness ==
    /\ calls[1].pc = "settled"
    /\ calls[2].pc = "settled"
    /\ calls[1].op = "requestBet"
    /\ calls[2].op = "requestBalance"
    /\ calls[1].resolvedFrom # calls[2].resolvedFrom
    /\ calls[1].transportLog # <<>>
    /\ calls[2].transportLog # <<>>
    /\ calls[1].transportLog[1].endpoint[2] # calls[2].transportLog[1].endpoint[2]
    /\ calls[1].response.kind = "response"
    /\ calls[1].response.status = 500
    /\ calls[2].outcome.kind = "returned"

----------------------------------------------------------------------------
\* what calling the exported request function `op` does, for each of the
\* options it may be given
EntryPointPlans(op) ==
    CASE op = "requestAuthenticate" ->
            { requestAuthenticateCall(o) : o \in AuthenticateOptions }
      [] op = "requestBet" ->
            { requestBetCall(o) : o \in BetOptions }
      [] op = "requestEndRound" ->
            { requestEndRoundCall(o) : o \in EndRoundOptions }
      [] op = "requestEndEvent" ->
            { requestEndEventCall(o) : o \in EndEventOptions }
      [] op = "requestForceResult" ->
            { requestForceResultCall(o) : o \in ForceResultOptions }
      [] op = "requestBalance" ->
            { requestBalanceCall(o) : o \in BalanceOptions }

\* the paths the exported request function `op` can send to
PathsOfEntryPoint(op) ==
    { plan.request.endpoint[3] : plan \in { p \in EntryPointPlans(op) : p.kind = "fetch" } }

\* some exported request function dispatches the operation at `path`
HasOwnEntryPoint(path) == \E op \in RequestOps : path \in PathsOfEntryPoint(op)

\* the operations that have no request function: action and session-start
GenericOnlyPaths == {"/bet/action", "/session/start"}

\* C16 as stated: each of the eight logical operations of the path table
\* (authenticate, balance, play, end-round, event, action, session-start,
\* search) can be dispatched through an entry point of its own.
C16_Original_EightEntryPoints ==
    (pc = "idle" /\ ambient.window) => \A path \in Paths : HasOwnEntryPoint(path)

\* C16, amended: six of the eight logical operations have an entry point of
\* their own, which dispatches that operation and no other; action and
\* session-start have none and go out only through the generic post, which
\* can dispatch every path of the table.
C16_SixEntryPoints ==
    /\ (pc = "idle" /\ ambient.window) =>
          /\ \A op \in RequestOps : PathsOfEntryPoint(op) = {PathOfOperation(op)}
          /\ \A path \in Paths : HasOwnEntryPoint(path) <=> path \notin GenericOnlyPaths
          /\ \A path \in Paths : \E o \in PostOptions : post(o).endpoint[3] = path
    /\ (Sent /\ transportLog[1].endpoint[3] \in GenericOnlyPaths) =>
          call.op \in {"post", "get"}

\* session-start dispatched through the generic post
C16_Witness ==
    /\ Sent
    /\ call.op = "post"
    /\ transportLog[1].method = "POST"
    /\ transportLog[1].endpoint[3] = "/session/start"

----------------------------------------------------------------------------
----------------------------------------------------------------------------
\* C18: the two scale constants have their literal values in every state,
\* 1,000,000 for the API scale and 100 for the book scale, and the amount of
\* a wire payload is the caller's amount on the API scale, never on the
\* book scale.
C18_ScalesAreFixed ==
    /\ API_AMOUNT_MULTIPLIER = 1000000
    /\ BOOK_AMOUNT_MULTIPLIER = 100
    /\ (Sent /\ call.op = "requestBet" /\ IsFiniteNumber(call.options.amount)) =>
          /\ IsFiniteNumber(UsedVariables.amount)
          /\ UsedVariables.amount.n * call.options.amount.d =
                 call.options.amount.n * 1000000 * UsedVariables.amount.d
          /\ (call.options.amount.n # 0) =>
                 UsedVariables.amount.n * call.options.amount.d #
                     call.options.amount.n * 100 * UsedVariables.amount.d
    /\ (Sent /\ call.op \in RequestOps /\ call.op # "requestBet") =>
          "amount" \notin DOMAIN UsedVariables

\* a bet of 1 went out as 1000000
C18_Witness ==
    /\ Sent
    /\ call.op = "requestBet"
    /\ call.options.amount = Num(1, 1)
    /\ UsedVariables.amount = Num(1000000, 1)

----------------------------------------------------------------------------
\* the failure post/get raise for a response whose status is not 200
IsHttpLevelFailure(o, status) ==
    /\ o.kind = "thrown"
    /\ o.error.name = "Error"
    /\ Len(o.error.message) >= 2
    /\ o.error.message[1] = "RGS API error: "
    /\ o.error.message[2] = ToString(status)

\* a call whose request was answered with a status other than 200
GotErrorStatus == GotResponse /\ response.status # 200

\* C19: only status 200 is success.  A response with any other status, 201
\* included, makes the call fail with the HTTP-level failure, whatever its
\* body, and the body is not returned; a 200 response with a decodable body
\* is returned.
C19_Only200IsSuccess ==
    /\ GotErrorStatus =>
          /\ outcome.kind # "returned"
          /\ IsHttpLevelFailure(outcome, response.status)
    /\ (GotResponse /\ response.status = 200 /\ response.body.decodable) =>
          outcome = Returned(response.body.value)

\* the same for every body but the JSON value null
C19_HoldsUnlessBodyIsNull ==
    (GotErrorStatus /\ ~(response.body.decodable /\ response.body.value.t = "null"))
        => C19_Only200IsSuccess

\* the body of a non-200 response decodes to an object with a non-empty message
HasServiceMessage ==
    /\ response.body.decodable
    /\ response.body.value.t = "object"
    /\ ~Falsy(response.body.value.message)

\* C20: on a non-200 response the failure carries the status code and, after
\* it, the service's message exactly when the body decodes to an object with
\* a non-empty message; an undecodable body or one without a message gives
\* a failure with the status code and no message part.
C20_MessageExactlyWhenSupplied ==
    GotErrorStatus =>
        /\ IsHttpLevelFailure(outcome, response.status)
        /\ Len(outcome.error.message) = 5
        /\ HasServiceMessage =>
               outcome.error.message[5] = " - " \o response.body.value.message
        /\ ~HasServiceMessage => outcome.error.message[5] = ""

\* the same for every body but the JSON value null
C20_HoldsUnlessBodyIsNull ==
    (GotErrorStatus /\ ~(response.body.decodable /\ response.body.value.t = "null"))
        => C20_MessageExactlyWhenSupplied

----------------------------------------------------------------------------
\* the order of the steps of one call: resolution and validation (which may
\* end the call), one send, the status inspection that picks the error or
\* the success path, one decode, the outcome
StepOrder ==
    { <<"idle", "settled">>, <<"idle", "fetch">>,
      <<"fetch", "settled">>, <<"fetch", "errorJson">>, <<"fetch", "bodyJson">>,
      <<"errorJson", "settled">>, <<"bodyJson", "settled">>,
      <<"settled", "idle">> }

\* C21: within one call the steps occur in a fixed order and none is
\* repeated.  Resolution and validation come before the one transport send,
\* the status is inspected before the body is decoded, the body is decoded
\* at most once, and it is decoded as the success value only after the
\* status was found to be 200.
C21_StepsInOrder ==
    /\ [](/\ jsonCalls <= 1
          /\ Len(transportLog) <= 1
          /\ (pc = "fetch") => (jsonCalls = 0 /\ response.kind = "none")
          /\ (jsonCalls = 1) =>
                 (Len(transportLog) = 1 /\ response.kind = "response")
          /\ (pc = "bodyJson") => (jsonCalls = 1 /\ response.status = 200)
          /\ (pc = "errorJson") => (jsonCalls = 1 /\ response.status # 200)
          /\ (outcome.kind = "returned") =>
                 (jsonCalls = 1 /\ response.status = 200)
          /\ (pc = "settled" /\ outcome.error \in {SessionIDRequired, RgsUrlRequired})
                 => (transportLog = <<>> /\ jsonCalls = 0))
    /\ [][/\ (pc' # pc) => <<pc, pc'>> \in StepOrder
          /\ (transportLog' # transportLog) =>
                 \/ (pc = "idle" /\ transportLog = <<>>)
                 \/ transportLog' = <<>>
          /\ (jsonCalls' # jsonCalls) =>
                 \/ (pc = "fetch" /\ jsonCalls = 0 /\ jsonCalls' = 1)
                 \/ jsonCalls' = 0]_vars

\* an end-round call that went through every step and returned
C21_Witness ==
    /\ pc = "settled"
    /\ call.op = "requestEndRound"
    /\ Len(transportLog) = 1
    /\ response.status = 200
    /\ jsonCalls = 1
    /\ outcome.kind = "returned"

----------------------------------------------------------------------------
\* the end-round call for the session of the bet examples
EndRoundOfSession == [sessionID |-> "A", rgsUrl |-> "h"]

\* call i is a bet for session A that waits for its response
BetAwaitsResponse(i) ==
    /\ calls[i].op = "requestBet"
    /\ calls[i].pc = "fetch"
    /\ calls[i].response.kind = "none"
    /\ calls[i].transportLog[1].variables.sessionID = "A"

\* C22: the core does not serialise concurrent calls.  While a bet call
\* waits for its response, an end-round call for the same session can be
\* started and is handed to the transport at once; and while the bet still
\* waits, the end-round call can receive its response and complete.
C22_CallsAreNotSerialised ==
    \A i, j \in CallIds :
        (i # j /\ BetAwaitsResponse(i) /\ ambient.window) =>
            /\ (calls[j].pc = "idle") =>
                  /\ ENABLED StartCall(j, "requestEndRound", EndRoundOfSession)
                  /\ CallPlan("requestEndRound", EndRoundOfSession).kind = "fetch"
            /\ (calls[j].op = "requestEndRound" /\ calls[j].pc = "fetch") =>
                  \A r \in ConcurrentOutcomes : ENABLED FetcherSettlesFor(j, r)
            /\ (calls[j].op = "requestEndRound" /\ calls[j].pc = "bodyJson") =>
                  ENABLED BodyJsonSettlesFor(j)

\* the end-round call of session A has returned while the bet call of the
\* same session still waits for its response
C22_Witness ==
    /\ BetAwaitsResponse(1)
    /\ calls[2].op = "requestEndRound"
    /\ calls[2].transportLog # <<>>
    /\ calls[2].transportLog[1].variables.sessionID = "A"
    /\ calls[2].pc = "settled"
    /\ calls[2].outcome.kind = "returned"

----------------------------------------------------------------------------
\* call c left `option` out and took `used` for it: the value of query
\* parameter `param` as the page had it when c was called, or none, and
\* then the call failed with `missing` before sending
ResolvedAfresh(c, option, param, used, missing) ==
    (c.pc # "idle" /\ c.options[option] = None /\ c.resolvedFrom.window) =>
        IF c.resolvedFrom.search[param] \in {None, ""}
        THEN c.outcome = Thrown(missing) /\ c.transportLog = <<>>
        ELSE c.transportLog # <<>> /\ used = c.resolvedFrom.search[param]

\* C24: configuration is resolved afresh on every call and never cached.
\* A call that omits sessionID or rgsUrl uses the ambient value the page has
\* at the time of that call, whatever an earlier call saw: when the page
\* changed in between, the later call has the new value, and fails with
\* missing configuration when the new page has none.
C24_ResolvedAfreshEveryCall ==
    \A i \in CallIds :
        LET c == calls[i]
        IN  /\ ResolvedAfresh(c, "sessionID", "sessionID",
                   IF c.transportLog = <<>> THEN None
                   ELSE c.transportLog[1].variables.sessionID,
                   SessionIDRequired)
            /\ (c.pc # "idle" /\ ~Falsy(Or(c.options.sessionID,
                                            c.resolvedFrom.search.sessionID))) =>
                   ResolvedAfresh(c, "rgsUrl", "rgs_url",
                       IF c.transportLog = <<>> THEN None
                       ELSE c.transportLog[1].endpoint[2],
                       RgsUrlRequired)

\* two balance calls that both omit sessionID and rgsUrl, with a navigation
\* between them: the one made while the query string had both was sent with
\* them, the one made while it had neither failed for want of a sessionID
C24_Witness ==
    /\ calls[1].op = "requestBalance"
    /\ calls[2].op = "requestBalance"
    /\ calls[1].options = [sessionID |-> None, rgsUrl |-> None]
    /\ calls[2].options = [sessionID |-> None, rgsUrl |-> None]
    /\ calls[1].transportLog # <<>>
    /\ calls[1].transportLog[1].variables.sessionID = "B"
    /\ calls[1].transportLog[1].endpoint[2] = "g"
    /\ calls[1].pc = "settled"
    /\ calls[2].pc = "settled"
    /\ calls[2].outcome = Thrown(SessionIDRequired)
    /\ ambient.search = NoQuery

----------------------------------------------------------------------------
\* what the request function `op` does with `options` in the current state
PlanOf(op, options) ==
    CASE op = "requestAuthenticate" -> requestAuthenticateCall(options)
      [] op = "requestBet"          -> requestBetCall(options)
      [] op = "requestEndRound"     -> requestEndRoundCall(options)
      [] op = "requestEndEvent"     -> requestEndEventCall(options)
      [] op = "requestForceResult"  -> requestForceResultCall(options)
      [] op = "requestBalance"      -> requestBalanceCall(options)

\* C25: configuration resolution has no side effects.  No step of a call,
\* whether it ends in a value or a failure, changes the ambient source or
\* the options the caller passed; and resolving the same options against
\* the same ambient source again, at any later point of the call, gives
\* the same request or the same failure as the call got.
C25_ResolutionHasNoSideEffects ==
    /\ []((pc # "idle" /\ call.op \in RequestOps) =>
            LET plan == PlanOf(call.op, call.options)
            IN  IF Sent
                THEN plan.kind = "fetch" /\ plan.request = transportLog[1]
                ELSE /\ plan.kind = "throw"
                     /\ pc = "settled"
                     /\ outcome = Thrown(plan.error))
    /\ [][/\ (pc # "idle" \/ pc' # "idle") => ambient' = ambient
          /\ (pc # "idle" /\ pc' # "idle") => call' = call]_vars

\* a bet resolved from the page has failed on the transport; the page still
\* has the query string the bet was resolved from
C25_Witness ==
    /\ pc = "settled"
    /\ call.op = "requestBet"
    /\ call.options.sessionID = None
    /\ call.options.rgsUrl = None
    /\ ambient.search.sessionID = "B"
    /\ ambient.search.rgs_url = "g"
    /\ Sent
    /\ UsedVariables.sessionID = "B"
    /\ outcome.kind = "thrown"

----------------------------------------------------------------------------
----------------------------------------------------------------------------
\* the fetch calls one invocation of fetcher has made, to either function
UnderlyingFetchCalls == fetcherRun.globalFetch \o fetcherRun.customFetch

\* C27: fetcher issues exactly one underlying fetch per invocation, with the
\* header Content-Type: application/json, to the endpoint and with the
\* method it was given.  A GET carries no body, a POST carries
\* JSON.stringify(variables); a supplied fetch function is the one called,
\* and then the global fetch is not called.
C27_FetcherCallsFetchOnce ==
    /\ (fetcherRun.stage = "invoked") => UnderlyingFetchCalls = <<>>
    /\ (fetcherRun.stage = "returned") =>
          LET o == fetcherRun.options
              c == UnderlyingFetchCalls[1]
          IN  /\ Len(UnderlyingFetchCalls) = 1
              /\ (o.fetch # None) =>
                     (fetcherRun.globalFetch = <<>> /\ Len(fetcherRun.customFetch) = 1)
              /\ (o.fetch = None) => fetcherRun.customFetch = <<>>
              /\ c.url = o.endpoint
              /\ c.method = o.method
              /\ DOMAIN c.headers = {"Content-Type"}
              /\ c.headers["Content-Type"] = "application/json"
              /\ (o.method = "GET") => ~c.hasBody
              /\ (o.method = "POST") =>
                     /\ c.hasBody
                     /\ c.body = JSONStringify(o.variables)
                     /\ (o.variables = [sessionID |-> "A"]) =>
                            c.body = "{\"sessionID\":\"A\"}"
                     /\ (o.variables = [sessionID |-> "A", language |-> None]) =>
                            c.body = "{\"sessionID\":\"A\"}"
                     /\ (o.variables = [sessionID |-> "A", event |-> "1"]) =>
                            c.body = "{\"sessionID\":\"A\",\"event\":\"1\"}"
                     /\ (o.variables = [sessionID |-> "A", currency |-> "USD",
                                        mode |-> "base",
                                        amount |-> Num(1000000, 1)]) =>
                            c.body = "{\"mode\":\"base\",\"currency\":\"USD\",\"sessionID\":\"A\",\"amount\":1000000}"
                     /\ (o.variables = [sessionID |-> "A", currency |-> "USD",
                                        mode |-> "base", amount |-> NaN]) =>
                            c.body = "{\"mode\":\"base\",\"currency\":\"USD\",\"sessionID\":\"A\",\"amount\":null}"

\* a POST of a bet went to the supplied fetch function, with its JSON body
C27_Witness ==
    /\ fetcherRun.stage = "returned"
    /\ fetcherRun.options.fetch = "customFetch"
    /\ fetcherRun.options.method = "POST"
    /\ fetcherRun.globalFetch = <<>>
    /\ Len(fetcherRun.customFetch) = 1
    /\ fetcherRun.customFetch[1].body =
           "{\"mode\":\"base\",\"currency\":\"USD\",\"sessionID\":\"A\",\"amount\":2.5}"

----------------------------------------------------------------------------
\* C28: a response with status 200 whose body cannot be decoded as JSON
\* makes the call fail with the decode failure; no value, empty object or
\* other, is returned.  The empty-object fallback belongs to the error path
\* alone: there an undecodable body gives the HTTP-level failure without a
\* message part.
C28_UndecodableSuccessBodyFails ==
    /\ (GotResponse /\ response.status = 200 /\ ~response.body.decodable) =>
          /\ outcome.kind = "thrown"
          /\ outcome.error = JsonSyntaxError
          /\ outcome.value = EmptyObject
          /\ jsonCalls = 1
    /\ (GotResponse /\ response.status # 200 /\ ~response.body.decodable) =>
          /\ IsHttpLevelFailure(outcome, response.status)
          /\ outcome.error.message[Len(outcome.error.message)] = ""

\* a balance call answered 200 with a body that is not JSON has failed with
\* the decode failure
C28_Witness ==
    /\ pc = "settled"
    /\ call.op = "requestBalance"
    /\ response.kind = "response"
    /\ response.status = 200
    /\ ~response.body.decodable
    /\ outcome.kind = "thrown"
    /\ outcome.error.name = "SyntaxError"

----------------------------------------------------------------------------
\* no value: left out, or the empty string
IsEmptyOrMissing(v) == v \in {None, ""}

\* C29: an explicit value that is the empty string is treated as absent.  An
\* explicit empty sessionID or rgsUrl is replaced by the ambient value, an
\* explicit empty language or currency by the ambient value or, when that is
\* missing or empty too, by the default en / USD; and a call fails with
\* missing configuration only when both the explicit and the ambient
\* sessionID (or rgsUrl) are empty or missing.
C29_EmptyStringIsAbsent ==
    /\ (Sent /\ call.op \in SessionOps /\ call.options.sessionID = "") =>
          /\ UsedVariables.sessionID = ambient.search.sessionID
          /\ ~IsEmptyOrMissing(UsedVariables.sessionID)
    /\ (Sent /\ call.op \in RequestOps /\ call.options.rgsUrl = "") =>
          /\ UsedHost = ambient.search.rgs_url
          /\ ~IsEmptyOrMissing(UsedHost)
    /\ (Sent /\ call.op = "requestAuthenticate"
             /\ IsEmptyOrMissing(call.options.language)) =>
          UsedVariables.language =
              IF IsEmptyOrMissing(ambient.search.lang) THEN "en"
              ELSE ambient.search.lang
    /\ (Sent /\ call.op = "requestBet"
             /\ IsEmptyOrMissing(call.options.currency)) =>
          UsedVariables.currency =
              IF IsEmptyOrMissing(ambient.search.currency) THEN "USD"
              ELSE ambient.search.currency
    /\ (pc = "settled" /\ call.op \in RequestOps
                       /\ outcome = Thrown(SessionIDRequired)) =>
          /\ call.op \in SessionOps
          /\ IsEmptyOrMissing(call.options.sessionID)
          /\ IsEmptyOrMissing(ambient.search.sessionID)
    /\ (pc = "settled" /\ call.op \in RequestOps
                       /\ outcome = Thrown(RgsUrlRequired)) =>
          /\ IsEmptyOrMissing(call.options.rgsUrl)
          /\ IsEmptyOrMissing(ambient.search.rgs_url)

\* an authenticate call with every explicit value empty, on a page whose
\* lang is empty too: sent with the page's session and host and language en
C29_Witness ==
    /\ Sent
    /\ call.op = "requestAuthenticate"
    /\ call.options = [sessionID |-> "", rgsUrl |-> "", language |-> ""]
    /\ ambient.search.lang = ""
    /\ UsedHost = "g"
    /\ UsedVariables = [sessionID |-> "B", language |-> "en"]

----------------------------------------------------------------------------
\* a call has reached its terminal outcome
Terminal == pc = "settled" /\ outcome.kind \in {"returned", "thrown"}

\* C23: provided the transport eventually yields a response or a fault and
\* a body decode eventually completes, every started call eventually reaches
\* a terminal outcome, a returned value or a raised failure.  A call that is
\* not yet terminal waits for the transport or for the decode of the body,
\* and for nothing else: the step that ends the wait is always enabled.
C23_EveryCallSettles ==
    /\ [](pc \in {"idle", "fetch", "errorJson", "bodyJson", "settled"})
    /\ []((pc = "settled") => Terminal)
    /\ []((pc = "fetch") => ENABLED fetcherSettles)
    /\ []((pc = "errorJson") => ENABLED errorJsonSettles)
    /\ []((pc = "bodyJson") => ENABLED bodyJsonSettles)
    /\ (pc # "idle") ~> Terminal

\* a call that waited for the transport and for the body has returned
C23_Witness ==
    /\ Terminal
    /\ call.op = "requestBet"
    /\ Len(transportLog) = 1
    /\ jsonCalls = 1
    /\ outcome.kind = "returned"

====
